---- MODULE Spec2Model ----
(***************************************************************************)
(* Model of the comment service (internal/services/commentservice) and of  *)
(* the browser client that keeps a live view of a post's comments.         *)
(*                                                                         *)
(* The service is stateless: every operation is a sequence of blocking     *)
(* collaborator calls (ports).  Operations of different callers interleave *)
(* between those calls, so each operation is split into one action per     *)
(* collaborator call.  The storage and the user directory stand behind the *)
(* ports; any port call may also fail with an arbitrary collaborator       *)
(* error.                                                                  *)
(***************************************************************************)
EXTENDS Integers, Sequences, FiniteSets, TLC

\* ------------------------------------------------------------------ bounds
MaxComments == 1      \* ids NewID can hand out
MaxTime     == 2      \* largest clock value
NumUsers    == 1      \* users the directory resolves: 1..NumUsers
MaxView     == 3      \* entries the client view can hold
MaxCalls    == 3      \* service operations started in one run
MaxIdLen    == 3      \* characters of a comment id the client shows

Procs      == {"p1", "p2"}                 \* concurrent callers of the service
CommentIDs == {"c" \o ToString(i) : i \in 1..MaxComments}
UserIDs    == 1..(NumUsers + 1)            \* NumUsers + 1 is unknown to the directory
PostIDs    == {"P1"}
Bodies     == {<<"a">>, <<"<">>}
Times      == 1..MaxTime

\* ------------------------------------------------------------------ errors
NoErr              == "nil"
ErrInvalidID       == "ErrInvalidID"
ErrInvalidArg      == "ErrInvalidArg"
ErrUserNotFound    == "ErrUserNotFound"
ErrCommentNotFound == "ErrCommentNotFound"
ErrUnauthorized    == "ErrUnauthorized"
ErrInternal        == "ErrInternal"
\* errors of collaborators that are not domain errors
ErrCanceled         == "context.Canceled"
ErrDeadlineExceeded == "context.DeadlineExceeded"
ErrRawStorage       == "mongo: no reachable servers"
\* a domain error wrapped by a collaborator with %w
ErrWrappedNotFound  == "storage.GetComment: ErrCommentNotFound"

Taxonomy == {ErrInvalidID, ErrInvalidArg, ErrUserNotFound, ErrCommentNotFound,
             ErrUnauthorized, ErrInternal}
ContextErrs == {ErrCanceled, ErrDeadlineExceeded}
\* every error a port call can end with
CollabErrs == {ErrInvalidID, ErrInvalidArg, ErrUserNotFound, ErrCommentNotFound,
               ErrUnauthorized, ErrWrappedNotFound, ErrRawStorage} \cup ContextErrs

Unwrap(err) == IF err = ErrWrappedNotFound THEN ErrCommentNotFound ELSE NoErr

\* errors.Is: err or the error it wraps is target
ErrorsIs(err, target) == err = target \/ Unwrap(err) = target

\* handleErr whose default branch returns the collaborator's error as it is
handleErr_Leaks(err) ==
    CASE ErrorsIs(err, ErrInvalidID) -> err
      [] ErrorsIs(err, ErrUserNotFound) \/ ErrorsIs(err, ErrCommentNotFound) -> err
      [] ErrorsIs(err, ErrInvalidArg) -> err
      [] OTHER -> err

\* handleErr with a branch that hands context errors to the caller
handleErr_PassesContextErrs(err) ==
    CASE ErrorsIs(err, ErrInvalidID) -> err
      [] ErrorsIs(err, ErrUserNotFound) \/ ErrorsIs(err, ErrCommentNotFound) -> err
      [] ErrorsIs(err, ErrInvalidArg) -> err
      [] ErrorsIs(err, ErrCanceled) \/ ErrorsIs(err, ErrDeadlineExceeded) -> err
      [] OTHER -> ErrInternal

\* handleErr without the case of line 165: not-found errors fall to the default
handleErr_NotFoundAsInternal(err) ==
    CASE ErrorsIs(err, ErrInvalidID) -> err
      [] ErrorsIs(err, ErrInvalidArg) -> err
      [] OTHER -> ErrInternal

\* handleErr whose line 165 names only ErrCommentNotFound
handleErr_UserNotFoundAsInternal(err) ==
    CASE ErrorsIs(err, ErrInvalidID) -> err
      [] ErrorsIs(err, ErrCommentNotFound) -> err
      [] ErrorsIs(err, ErrInvalidArg) -> err
      [] OTHER -> ErrInternal

handleErr(err) ==
    CASE ErrorsIs(err, ErrInvalidID) -> err
      [] ErrorsIs(err, ErrUserNotFound) \/ ErrorsIs(err, ErrCommentNotFound) -> err
      [] ErrorsIs(err, ErrInvalidArg) -> err
      [] OTHER -> ErrInternal

\* ------------------------------------------------------------------ domain
NoUser       == [id |-> 0, first_name |-> ""]
EmptyComment == [id |-> "", post_id |-> "", user |-> NoUser, body |-> <<>>,
                 created_at |-> 0, updated_at |-> 0]
EmptyDTO     == [op |-> "", comment_id |-> "", user_id |-> 0, post_id |-> "", body |-> <<>>]
NoRet        == [comment |-> EmptyComment, comments |-> <<>>, err |-> NoErr]

\* the user directory behind UserProvider
DirectoryUser(id) == [id |-> id, first_name |-> "user" \o ToString(id)]
Resolves(id) == id \in 1..NumUsers

VARIABLES
    storage,     \* stored comments: a function from the stored ids to comments
    usedIDs,     \* ids NewID has handed out
    started,     \* number of service operations started so far
    now,         \* the clock behind time.Now()
    faults,      \* errors the ports fail with in this run, besides not-found
    normalizes,  \* whether the storage backend of this run normalizes what it persists
    pc,          \* per caller: position in its operation
    dto,         \* per caller: the request
    comment,     \* per caller: local variable comment of Create/Update/Delete
    ret,         \* per caller: the values returned
    fetched,     \* per caller: what GetComment/GetUser returned in this call
    collabErr,   \* per caller: error of the last collaborator call
    calls,       \* per caller: ports invoked by the running operation
    deleteCalls, \* per comment id: number of delete port invocations so far
    deleted,     \* ids of the comments a Delete has returned success for
    overwrote,   \* per caller: its update port write replaced a comment other than the one it fetched
    clicked,     \* client: id of the comment whose button was pressed last, as characters
    outbox,      \* client: the inbound event that button press published
    channel,     \* outbound publications broadcast and not yet delivered to the client
    eventType,   \* client: type of the last publication handled
    messages,    \* client: the comment elements under #chat-messages, in order
    thrown       \* client: exception the last publication handler raised

dvars == <<deleteCalls, deleted>>
hvars == <<dvars, overwrote>>
evars == <<faults, normalizes>>
svars == <<storage, usedIDs, started, now, evars, pc, dto, comment, ret, fetched, collabErr, calls,
          hvars>>
uvars == <<clicked, outbox>>
cvars == <<channel, eventType, messages, thrown, uvars>>
vars  == <<svars, cvars>>

\* ------------------------------------------------------------ collaborators
\* errors a port call can end with whatever is stored (bad id, transport
\* failure, cancelled context, ...); faults is the subset injected in a run
PortFaults == CollabErrs \ {ErrUserNotFound, ErrCommentNotFound, ErrWrappedNotFound}

Put(s, c) == [i \in DOMAIN s \cup {c.id} |-> IF i = c.id THEN c ELSE s[i]]
Drop(s, id) == [i \in DOMAIN s \ {id} |-> s[i]]

\* Creator.CreateComment: the comment the backend persists and returns for c;
\* a normalizing backend stamps both times with one value
CreateComment(c) ==
    IF normalizes THEN [c EXCEPT !.created_at = c.updated_at] ELSE c

\* UserProvider.GetUser: the errors it can return for id
GetUserErrs(id) == faults \cup (IF Resolves(id) THEN {} ELSE {ErrUserNotFound})
\* Provider.GetComment: the errors it can return for id
GetCommentErrs(id) ==
    faults \cup (IF id \in DOMAIN storage THEN {}
                     ELSE {ErrCommentNotFound, ErrWrappedNotFound})
\* Provider.ListPostComments: the comments of the post, in id order
RECURSIVE ListOf(_, _)
ListOf(s, ids) ==
    IF ids = {} THEN <<>>
    ELSE LET i == CHOOSE x \in ids : \A y \in ids : x = y \/ ~ (\E n \in 1..MaxComments :
                     y = "c" \o ToString(n) /\ \E m \in 1..MaxComments :
                     x = "c" \o ToString(m) /\ n < m)
         IN  <<s[i]>> \o ListOf(s, ids \ {i})
ListPostComments(postID) ==
    ListOf(storage, {i \in DOMAIN storage : storage[i].post_id = postID})
\* Deleter.DeleteComment: the errors it can return for id
DeleteCommentErrs(id) ==
    faults \cup (IF id \in DOMAIN storage THEN {}
                     ELSE {ErrCommentNotFound, ErrWrappedNotFound})

\* time.Now(): the values a read at clock value t can return
TimeNow(t) == {u \in Times : t <= u /\ u <= t + 1}

\* domain.NewID(): an id that was never handed out (the next one in sequence;
\* empty once MaxComments ids have been handed out)
NewID == {"c" \o ToString(Cardinality(usedIDs) + 1)} \cap CommentIDs

\* ------------------------------------------------------------------ service
Set(f, p, v) == [f EXCEPT ![p] = v]

\* the operation of caller p returns (c, cs, err)
Returns(p, c, cs, err) ==
    /\ pc' = Set(pc, p, "done")
    /\ ret' = Set(ret, p, [comment |-> c, comments |-> cs, err |-> err])

\* lines 77-84: the comment Create hands to the create port
NewComment(id, postID, user, body, t1, t2) ==
    [id |-> id, post_id |-> postID, user |-> user, body |-> body,
     created_at |-> t1, updated_at |-> t2]

\* an ownership check that lets every caller through
Authorized_Anyone(c, userID) == TRUE

\* an ownership check with the comparison inverted
Authorized_Inverted(c, userID) == c.user.id # userID

\* line 101 / line 125: the ownership check
Authorized(c, userID) == c.user.id = userID

\* an Update that stamps the comment with its creation time
UpdatedComment_StaleTime(c, body, t) == [c EXCEPT !.body = body, !.updated_at = c.created_at]

\* an Update that also resets created_at
UpdatedComment_ResetsCreatedAt(c, body, t) ==
    [c EXCEPT !.body = body, !.updated_at = t, !.created_at = t]

\* lines 105-106: the comment Update hands to the update port
UpdatedComment(c, body, t) == [c EXCEPT !.body = body, !.updated_at = t]

\* caller p starts an operation
Start(p) ==
    /\ pc[p] = "idle"
    /\ started < MaxCalls
    /\ started' = started + 1

\* Create, lines 72-84: resolve the user, build the comment
CreateGetUser(p, userID, postID, body) ==
    /\ Start(p)
    /\ NewID # {}
    /\ dto' = Set(dto, p, [EmptyDTO EXCEPT !.op = "create", !.user_id = userID, !.post_id = postID,
                                           !.body = body])
    /\ calls' = Set(calls, p, {"get_user"})
    /\ \/ \E e \in GetUserErrs(userID) :
            /\ collabErr' = Set(collabErr, p, e)
            /\ Returns(p, EmptyComment, <<>>, handleErr(e))
            /\ UNCHANGED <<storage, usedIDs, now, comment, fetched>>
       \/ /\ Resolves(userID)
          /\ \E id \in NewID : \E t1 \in TimeNow(now) : \E t2 \in TimeNow(t1) :
               /\ usedIDs' = usedIDs \cup {id}
               /\ now' = t2
               /\ comment' = Set(comment, p,
                      NewComment(id, postID, DirectoryUser(userID), body, t1, t2))
          /\ fetched' = Set(fetched, p, [EmptyComment EXCEPT !.user = DirectoryUser(userID)])
          /\ collabErr' = Set(collabErr, p, NoErr)
          /\ pc' = Set(pc, p, "create_store")
          /\ UNCHANGED <<storage, ret>>
    /\ UNCHANGED <<evars, cvars, hvars>>

\* a Create that returns the comment it constructed
CreateStore_ReturnsConstructed(p) ==
    /\ pc[p] = "create_store"
    /\ calls' = Set(calls, p, calls[p] \cup {"create"})
    /\ \/ \E e \in faults :
            /\ collabErr' = Set(collabErr, p, e)
            /\ Returns(p, EmptyComment, <<>>, handleErr(e))
            /\ UNCHANGED storage
       \/ /\ storage' = Put(storage, CreateComment(comment[p]))
          /\ collabErr' = Set(collabErr, p, NoErr)
          /\ Returns(p, comment[p], <<>>, NoErr)
    /\ UNCHANGED <<usedIDs, started, evars, now, dto, comment, fetched, cvars, hvars>>

\* Create, lines 77-89: the create port call
CreateStore(p) ==
    /\ pc[p] = "create_store"
    /\ calls' = Set(calls, p, calls[p] \cup {"create"})
    /\ \/ \E e \in faults :
            /\ collabErr' = Set(collabErr, p, e)
            /\ Returns(p, EmptyComment, <<>>, handleErr(e))
            /\ UNCHANGED storage
       \/ /\ storage' = Put(storage, CreateComment(comment[p]))
          /\ collabErr' = Set(collabErr, p, NoErr)
          /\ Returns(p, CreateComment(comment[p]), <<>>, NoErr)
    /\ UNCHANGED <<usedIDs, started, evars, now, dto, comment, fetched, cvars, hvars>>

\* Update, lines 96-99 and Delete, lines 120-123: fetch the stored comment
Fetch(p, commentID, next) ==
    /\ calls' = Set(calls, p, {"get_comment"})
    /\ \/ \E e \in GetCommentErrs(commentID) :
            /\ collabErr' = Set(collabErr, p, e)
            /\ Returns(p, EmptyComment, <<>>, handleErr(e))
            /\ UNCHANGED <<comment, fetched>>
       \/ /\ commentID \in DOMAIN storage
          /\ comment' = Set(comment, p, storage[commentID])
          /\ fetched' = Set(fetched, p, storage[commentID])
          /\ collabErr' = Set(collabErr, p, NoErr)
          /\ pc' = Set(pc, p, next)
          /\ UNCHANGED ret
    /\ UNCHANGED <<storage, usedIDs, evars, now, cvars, hvars>>

UpdateFetch(p, commentID, userID, body) ==
    /\ Start(p)
    /\ dto' = Set(dto, p, [EmptyDTO EXCEPT !.op = "update", !.comment_id = commentID,
                                           !.user_id = userID,
                                           !.body = body])
    /\ Fetch(p, commentID, "update_check")

\* Update, lines 101-106: ownership check, new body, new updated_at
UpdateAuthorize(p) ==
    /\ pc[p] = "update_check"
    /\ IF ~ Authorized(comment[p], dto[p].user_id)
       THEN /\ Returns(p, EmptyComment, <<>>, ErrUnauthorized)
            /\ UNCHANGED <<now, comment>>
       ELSE \E t \in TimeNow(now) :
            /\ now' = t
            /\ comment' = Set(comment, p, UpdatedComment(comment[p], dto[p].body, t))
            /\ pc' = Set(pc, p, "update_write")
            /\ UNCHANGED ret
    /\ UNCHANGED <<storage, usedIDs, started, evars, dto, fetched, collabErr, calls, cvars, hvars>>

\* an update port call guarded by a version check: a write over a comment
\* that changed since it was fetched is refused
UpdateWrite_DetectsConflict(p) ==
    /\ pc[p] = "update_write"
    /\ calls' = Set(calls, p, calls[p] \cup {"update"})
    /\ \/ \E e \in faults :
            /\ collabErr' = Set(collabErr, p, e)
            /\ Returns(p, EmptyComment, <<>>, handleErr(e))
            /\ UNCHANGED <<storage, overwrote>>
       \/ /\ comment[p].id \in DOMAIN storage
          /\ storage[comment[p].id] # fetched[p]
          /\ collabErr' = Set(collabErr, p, ErrRawStorage)
          /\ Returns(p, EmptyComment, <<>>, handleErr(ErrRawStorage))
          /\ UNCHANGED <<storage, overwrote>>
       \/ /\ ~ (comment[p].id \in DOMAIN storage /\ storage[comment[p].id] # fetched[p])
          /\ storage' = Put(storage, comment[p])
          /\ overwrote' = Set(overwrote, p, FALSE)
          /\ collabErr' = Set(collabErr, p, NoErr)
          /\ Returns(p, comment[p], <<>>, NoErr)
    /\ UNCHANGED <<usedIDs, started, evars, now, dto, comment, fetched, cvars, dvars>>

\* Update, lines 108-113: the update port call
UpdateWrite(p) ==
    /\ pc[p] = "update_write"
    /\ calls' = Set(calls, p, calls[p] \cup {"update"})
    /\ \/ \E e \in faults :
            /\ collabErr' = Set(collabErr, p, e)
            /\ Returns(p, EmptyComment, <<>>, handleErr(e))
            /\ UNCHANGED <<storage, overwrote>>
       \/ /\ storage' = Put(storage, comment[p])
          /\ overwrote' = Set(overwrote, p, /\ comment[p].id \in DOMAIN storage
                                            /\ storage[comment[p].id] # fetched[p])
          /\ collabErr' = Set(collabErr, p, NoErr)
          /\ Returns(p, comment[p], <<>>, NoErr)
    /\ UNCHANGED <<usedIDs, started, evars, now, dto, comment, fetched, cvars, dvars>>

DeleteFetch(p, commentID, userID) ==
    /\ Start(p)
    /\ dto' = Set(dto, p, [EmptyDTO EXCEPT !.op = "delete", !.comment_id = commentID,
                                           !.user_id = userID])
    /\ Fetch(p, commentID, "delete_check")

\* Delete, lines 125-134: ownership check, then the delete port call
DeleteWrite(p) ==
    /\ pc[p] = "delete_check"
    /\ IF ~ Authorized(comment[p], dto[p].user_id)
       THEN /\ Returns(p, EmptyComment, <<>>, ErrUnauthorized)
            /\ UNCHANGED <<storage, collabErr, calls, dvars>>
       ELSE /\ calls' = Set(calls, p, calls[p] \cup {"delete"})
            /\ deleteCalls' = [deleteCalls EXCEPT ![dto[p].comment_id] = @ + 1]
            /\ \/ \E e \in DeleteCommentErrs(dto[p].comment_id) :
                    /\ collabErr' = Set(collabErr, p, e)
                    /\ Returns(p, EmptyComment, <<>>, handleErr(e))
                    /\ UNCHANGED <<storage, deleted>>
               \/ /\ dto[p].comment_id \in DOMAIN storage
                  /\ storage' = Drop(storage, dto[p].comment_id)
                  /\ deleted' = deleted \cup {dto[p].comment_id}
                  /\ collabErr' = Set(collabErr, p, NoErr)
                  /\ Returns(p, EmptyComment, <<>>, NoErr)
    /\ UNCHANGED <<usedIDs, started, evars, now, dto, comment, fetched, overwrote, cvars>>

\* a GetByID that evicts the comment it read
GetByID_Evicts(p, id) ==
    /\ Start(p)
    /\ dto' = Set(dto, p, [EmptyDTO EXCEPT !.op = "get", !.comment_id = id])
    /\ calls' = Set(calls, p, {"get_comment"})
    /\ \/ \E e \in GetCommentErrs(id) :
            /\ collabErr' = Set(collabErr, p, e)
            /\ Returns(p, EmptyComment, <<>>, handleErr(e))
            /\ UNCHANGED storage
       \/ /\ id \in DOMAIN storage
          /\ collabErr' = Set(collabErr, p, NoErr)
          /\ Returns(p, storage[id], <<>>, NoErr)
          /\ storage' = Drop(storage, id)
    /\ UNCHANGED <<usedIDs, evars, now, comment, fetched, cvars, hvars>>

\* GetByID, lines 137-147
GetByID(p, id) ==
    /\ Start(p)
    /\ dto' = Set(dto, p, [EmptyDTO EXCEPT !.op = "get", !.comment_id = id])
    /\ calls' = Set(calls, p, {"get_comment"})
    /\ \/ \E e \in GetCommentErrs(id) :
            /\ collabErr' = Set(collabErr, p, e)
            /\ Returns(p, EmptyComment, <<>>, handleErr(e))
       \/ /\ id \in DOMAIN storage
          /\ collabErr' = Set(collabErr, p, NoErr)
          /\ Returns(p, storage[id], <<>>, NoErr)
    /\ UNCHANGED <<storage, usedIDs, evars, now, comment, fetched, cvars, hvars>>

\* ListByPostID, lines 149-159
ListByPostID(p, postID) ==
    /\ Start(p)
    /\ dto' = Set(dto, p, [EmptyDTO EXCEPT !.op = "list", !.post_id = postID])
    /\ calls' = Set(calls, p, {"list_post_comments"})
    /\ \/ \E e \in faults :
            /\ collabErr' = Set(collabErr, p, e)
            /\ Returns(p, EmptyComment, <<>>, handleErr(e))
       \/ /\ collabErr' = Set(collabErr, p, NoErr)
          /\ Returns(p, EmptyComment, ListPostComments(postID), NoErr)
    /\ UNCHANGED <<storage, usedIDs, evars, now, comment, fetched, cvars, hvars>>

\* the caller takes the result; nothing of the call is retained
Return(p) ==
    /\ pc[p] = "done"
    /\ pc' = Set(pc, p, "idle")
    /\ dto' = Set(dto, p, EmptyDTO)
    /\ comment' = Set(comment, p, EmptyComment)
    /\ ret' = Set(ret, p, NoRet)
    /\ fetched' = Set(fetched, p, EmptyComment)
    /\ collabErr' = Set(collabErr, p, NoErr)
    /\ calls' = Set(calls, p, {})
    /\ overwrote' = Set(overwrote, p, FALSE)
    /\ UNCHANGED <<storage, usedIDs, started, evars, now, cvars, dvars>>

InitService ==
    /\ storage = << >>
    /\ usedIDs = {}
    /\ started = 0
    /\ now = 1
    /\ pc = [p \in Procs |-> "idle"]
    /\ dto = [p \in Procs |-> EmptyDTO]
    /\ comment = [p \in Procs |-> EmptyComment]
    /\ ret = [p \in Procs |-> NoRet]
    /\ fetched = [p \in Procs |-> EmptyComment]
    /\ collabErr = [p \in Procs |-> NoErr]
    /\ calls = [p \in Procs |-> {}]
    /\ deleteCalls = [id \in CommentIDs |-> 0]
    /\ deleted = {}
    /\ overwrote = [p \in Procs |-> FALSE]

\* The steps of caller p.  A finished call is handed back to its caller
\* before any other step is taken: Return touches only the variables of that
\* caller, so this order loses no interleaving of the port calls.
Op(p) ==
    \/ /\ \A q \in Procs : pc[q] # "done"
       /\
        \/ \E u \in UserIDs : \E post \in PostIDs : \E b \in Bodies :
               CreateGetUser(p, u, post, b)
        \/ CreateStore(p)
        \/ \E id \in CommentIDs : \E u \in UserIDs : \E b \in Bodies :
               UpdateFetch(p, id, u, b)
        \/ UpdateAuthorize(p)
        \/ UpdateWrite(p)
        \/ \E id \in CommentIDs : \E u \in UserIDs : DeleteFetch(p, id, u)
        \/ DeleteWrite(p)
        \/ \E id \in CommentIDs : GetByID(p, id)
        \/ \E post \in PostIDs : ListByPostID(p, post)
    \/ Return(p)

\* ------------------------------------------------------------------- client
\* the publications a subscribed client can receive on the channel
EventTypes == {"new_comment", "edit_comment", "remove_comment", "presence"}
\* ids a publication can carry: those of comments, and one never handed out
PublishedIDs == CommentIDs \cup {"c0"}
Publications ==
    [type : EventTypes,
     payload : [id : PublishedIDs, comment_id : PublishedIDs, body : Bodies]]

\* tagsToReplace / replaceTag
replaceTag(tag) ==
    CASE tag = "&" -> <<"&", "a", "m", "p", ";">>
      [] tag = "<" -> <<"&", "l", "t", ";">>
      [] tag = ">" -> <<"&", "g", "t", ";">>
      [] OTHER -> <<tag>>

RECURSIVE safeTagsReplace(_)
safeTagsReplace(str) ==
    IF str = <<>> THEN <<>>
    ELSE replaceTag(Head(str)) \o safeTagsReplace(Tail(str))

\* Comment.toHtml: the element of a comment, its id and the text of its .body
toHtml(id, body) == [id |-> "comment-" \o id, body |-> body]

\* document.getElementById: position of the first element with this id, 0 for null
getElementById(elems, eid) ==
    IF \E i \in 1..Len(elems) : elems[i].id = eid
    THEN CHOOSE i \in 1..Len(elems) :
             /\ elems[i].id = eid
             /\ \A j \in 1..(i - 1) : elems[j].id # eid
    ELSE 0

\* Element.remove() of the element at position i
removeAt(elems, i) == SubSeq(elems, 1, i - 1) \o SubSeq(elems, i + 1, Len(elems))

\* drawComment(new Comment(...)) as done by handleNewComment
newCommentView(elems, payload) ==
    Append(elems, toHtml(payload.id, safeTagsReplace(payload.body)))

\* handleEditComment: the view after the handler, and whether it threw
editCommentThrows(elems, payload) ==
    getElementById(elems, "comment-" \o payload.id) = 0
editCommentView(elems, payload) ==
    LET i == getElementById(elems, "comment-" \o payload.id)
    IN  IF i = 0 THEN elems ELSE [elems EXCEPT ![i].body = payload.body]

\* handleRemoveComment: the view after the handler
removeCommentView(elems, payload) ==
    LET i == getElementById(elems, "comment-" \o payload.comment_id)
    IN  IF i = 0 THEN elems ELSE removeAt(elems, i)

handleNewComment(ctx) ==
    /\ ctx.type = "new_comment"
    /\ Len(messages) < MaxView
    /\ messages' = newCommentView(messages, ctx.payload)
    /\ thrown' = "none"

handleEditComment(ctx) ==
    /\ ctx.type = "edit_comment"
    /\ messages' = editCommentView(messages, ctx.payload)
    /\ thrown' = IF editCommentThrows(messages, ctx.payload) THEN "TypeError" ELSE "none"

handleRemoveComment(ctx) ==
    /\ ctx.type = "remove_comment"
    /\ messages' = removeCommentView(messages, ctx.payload)
    /\ thrown' = "none"

\* a default branch that raises instead of warning
handleUnknown_Throws(ctx) ==
    /\ ctx.type \notin {"new_comment", "edit_comment", "remove_comment"}
    /\ messages' = messages
    /\ thrown' = "TypeError"

\* default branch of handlePublication: console.warn
handleUnknown(ctx) ==
    /\ ctx.type \notin {"new_comment", "edit_comment", "remove_comment"}
    /\ messages' = messages
    /\ thrown' = "none"

handlePublication(ctx) ==
    /\ eventType' = ctx.type
    /\ \/ handleNewComment(ctx)
       \/ handleEditComment(ctx)
       \/ handleRemoveComment(ctx)
       \/ handleUnknown(ctx)
    /\ UNCHANGED <<svars, uvars>>

\* ------------------------------------------------------------------ buttons
\* Comment ids as the client handles them: strings, here sequences of
\* characters, of one to MaxIdLen characters
IdChars == {"a", "b", "-"}
ShownIDs == UNION {[1..n -> IdChars] : n \in 1..MaxIdLen}

NoEvent == [type |-> "", payload |-> [comment_id |-> <<>>, body |-> <<>>]]

\* line 142: commentElement.id = 'comment-' + this.id
elementId(id) == <<"c", "o", "m", "m", "e", "n", "t", "-">> \o id

\* String.prototype.split with a one-character separator: the parts of s
\* between the separators, in order
RECURSIVE split(_, _)
split(s, sep) ==
    IF \A i \in 1..Len(s) : s[i] # sep
    THEN <<s>>
    ELSE LET i == CHOOSE k \in 1..Len(s) :
                      s[k] = sep /\ \A j \in 1..(k - 1) : s[j] # sep
         IN  <<SubSeq(s, 1, i - 1)>> \o split(SubSeq(s, i + 1, Len(s)), sep)

\* lines 252-258: commentId.split("-")[1] is the second part
deleteComment(commentId) ==
    outbox' = [type |-> "delete_comment",
               payload |-> [comment_id |-> split(commentId, "-")[2], body |-> <<>>]]

\* lines 260-266
updateComment(commentId, body) ==
    outbox' = [type |-> "update_comment",
               payload |-> [comment_id |-> split(commentId, "-")[2], body |-> body]]

\* lines 160-162: the Delete button of the entry of comment id
PressDelete(id) ==
    /\ clicked' = id
    /\ deleteComment(elementId(id))
    /\ UNCHANGED <<svars, channel, eventType, messages, thrown>>

\* lines 167-172: the Update button of the entry of comment id, with the
\* body the prompt returned
PressUpdate(id, newBody) ==
    /\ newBody # <<>>
    /\ clicked' = id
    /\ updateComment(elementId(id), newBody)
    /\ UNCHANGED <<svars, channel, eventType, messages, thrown>>

\* ------------------------------------------------------------- event bridge
\* The layer between the channel and the service.  An inbound event of the
\* session of user u is translated into one service call.
BridgeInbound(p, u) ==
    \/ \E post \in PostIDs : \E b \in Bodies : CreateGetUser(p, u, post, b)
    \/ \E id \in CommentIDs : \E b \in Bodies : UpdateFetch(p, id, u, b)
    \/ \E id \in CommentIDs : DeleteFetch(p, id, u)

\* the outbound publication for the finished call of p
Outbound(p) ==
    CASE dto[p].op = "create" ->
           [type |-> "new_comment",
            payload |-> [id |-> ret[p].comment.id, comment_id |-> "",
                         body |-> ret[p].comment.body]]
      [] dto[p].op = "update" ->
           [type |-> "edit_comment",
            payload |-> [id |-> ret[p].comment.id, comment_id |-> "",
                         body |-> ret[p].comment.body]]
      [] OTHER ->
           [type |-> "remove_comment",
            payload |-> [id |-> "", comment_id |-> dto[p].comment_id, body |-> <<>>]]

\* a bridge that broadcasts whatever the call returned
ShouldBroadcast_Always(err) == TRUE

\* only a successful service call produces an outbound event
ShouldBroadcast(err) == err = NoErr

\* the bridge takes the result of the finished call of p: it broadcasts once
\* on success, and only answers the requesting client on failure
BridgeReply(p) ==
    /\ pc[p] = "done"
    /\ channel' = IF ShouldBroadcast(ret[p].err) THEN Append(channel, Outbound(p))
                                                 ELSE channel
    /\ pc' = Set(pc, p, "idle")
    /\ dto' = Set(dto, p, EmptyDTO)
    /\ comment' = Set(comment, p, EmptyComment)
    /\ ret' = Set(ret, p, NoRet)
    /\ fetched' = Set(fetched, p, EmptyComment)
    /\ collabErr' = Set(collabErr, p, NoErr)
    /\ calls' = Set(calls, p, {})
    /\ overwrote' = Set(overwrote, p, FALSE)
    /\ UNCHANGED <<storage, usedIDs, started, evars, now, dvars, eventType, messages, thrown,
                   uvars>>

\* the broker delivers the oldest publication to the subscribed client
Deliver ==
    /\ channel # <<>>
    /\ handlePublication(Head(channel))
    /\ channel' = Tail(channel)

\* The steps of the bridge for connection p.  A publication is delivered
\* before anything else happens, and a finished call is replied to before any
\* other call moves: both touch only the channel, the client and that call.
BridgeOp(p) ==
    \/ /\ \A q \in Procs : pc[q] # "done"
       /\
        \/ \E u \in UserIDs : BridgeInbound(p, u)
        \/ CreateStore(p)
        \/ UpdateAuthorize(p)
        \/ UpdateWrite(p)
        \/ DeleteWrite(p)
    \/ BridgeReply(p)

\* ----------------------------------------------------------- specifications
InitClient ==
    /\ clicked = <<>>
    /\ outbox = NoEvent
    /\ channel = <<>>
    /\ eventType = ""
    /\ messages = <<>>
    /\ thrown = "none"

\* concurrent callers; the ports fail only with the not-found errors
Init == InitService /\ InitClient /\ faults = {} /\ normalizes = FALSE
Next == \E p \in Procs : Op(p)
Spec == Init /\ [][Next]_vars

\* one caller; every port call can fail with every error of PortFaults
FaultInit == InitService /\ InitClient /\ faults = PortFaults /\ normalizes = FALSE
FaultNext == \E p \in {"p1"} : Op(p)
FaultSpec == FaultInit /\ [][FaultNext]_vars

\* one caller, one call at a time; the ports fail only with the not-found errors
SeqSpec == Init /\ [][FaultNext]_vars

\* one caller; the backend normalizes what it persists and can fail with one
\* unclassified error
NormInit == InitService /\ InitClient /\ faults = {ErrRawStorage} /\ normalizes = TRUE
NormSpec == NormInit /\ [][FaultNext]_vars

\* clients publishing inbound events through the bridge and receiving its
\* broadcasts; the storage can fail with one unclassified error
BridgeInit == InitService /\ InitClient /\ faults = {ErrRawStorage} /\ normalizes = FALSE
BridgeNext ==
    \/ Deliver
    \/ /\ channel = <<>>
       /\ \E p \in Procs : BridgeOp(p)
BridgeSpec == BridgeInit /\ [][BridgeNext]_vars

\* the buttons of the entries the client shows, for any id
ButtonNext ==
    \/ \E id \in ShownIDs : PressDelete(id)
    \/ \E id \in ShownIDs : \E b \in Bodies : PressUpdate(id, b)
ButtonSpec == Init /\ [][ButtonNext]_vars

\* the client alone, receiving any publication in any order, any number of times
ClientNext == \E ctx \in Publications : handlePublication(ctx) /\ UNCHANGED channel
ClientSpec == Init /\ [][ClientNext]_vars

\* ------------------------------------------------------------------- claims
IsTaxonomyMember(err) == \E t \in Taxonomy : ErrorsIs(err, t)
Done(p, op) == pc[p] = "done" /\ dto[p].op = op

\* C1: when the caller of Update or Delete is not the author of the comment
\* fetched from storage, the step that follows the fetch returns Unauthorized,
\* leaves storage unchanged and invokes neither the update nor the delete
\* port (the fetch stays the only port call of the operation).
C1_UnauthorizedNoMutation ==
    [][\A p \in Procs :
         (/\ pc[p] \in {"update_check", "delete_check"}
          /\ fetched[p].user.id # dto[p].user_id
          /\ pc'[p] # pc[p])
         => /\ pc'[p] = "done"
            /\ ret'[p] = [NoRet EXCEPT !.err = ErrUnauthorized]
            /\ storage' = storage
            /\ calls'[p] = {"get_comment"}]_vars

C1_Witness ==
    \E p \in Procs : \E q \in Procs \ {p} :
        /\ Done(p, "update") /\ ret[p].err = ErrUnauthorized
        /\ fetched[p].id \in DOMAIN storage
        /\ fetched[p].user.id # dto[p].user_id
        /\ pc[q] = "delete_check"
        /\ fetched[q].user.id # dto[q].user_id

\* C2: a successful Create returns a comment with a non-empty id, created_at
\* equal to updated_at, and the user the directory resolved.
C2_CreatedCommentShape ==
    \A p \in Procs :
        (Done(p, "create") /\ ret[p].err = NoErr)
        => /\ ret[p].comment.id # ""
           /\ ret[p].comment.created_at = ret[p].comment.updated_at
           /\ ret[p].comment.user = DirectoryUser(dto[p].user_id)

\* C3 (as claimed): no step lowers the updated_at of a stored comment.
C3_StoredUpdatedAtNeverDecreases ==
    [][\A id \in DOMAIN storage \cap DOMAIN storage' :
         storage'[id].updated_at >= storage[id].updated_at]_vars

\* C3 (amended): every successful update-port write stores an updated_at that
\* is not below the updated_at of the comment this Update call fetched.
C3_UpdatedAtNotBelowFetched ==
    [][\A p \in Procs :
         (pc[p] = "update_write" /\ pc'[p] = "done" /\ ret'[p].err = NoErr)
         => storage'[fetched[p].id].updated_at >= fetched[p].updated_at]_vars

C3_Witness ==
    \E p \in Procs :
        /\ Done(p, "update") /\ ret[p].err = NoErr
        /\ fetched[p].id \in DOMAIN storage
        /\ storage[fetched[p].id] = ret[p].comment
        /\ ret[p].comment.updated_at > fetched[p].updated_at

\* C4: the comment a successful Update writes through the update port, and
\* returns, is the fetched comment with only body and updated_at replaced.
C4_UpdatePreservesIdentity ==
    [][\A p \in Procs :
         (pc[p] = "update_write" /\ pc'[p] = "done" /\ ret'[p].err = NoErr)
         => LET w == storage'[fetched[p].id]
            IN  /\ w = [fetched[p] EXCEPT !.body = dto[p].body,
                                          !.updated_at = w.updated_at]
                /\ ret'[p].comment = w]_vars

C4_Witness ==
    \E p \in Procs :
        /\ Done(p, "update") /\ ret[p].err = NoErr
        /\ ret[p].comment.body # fetched[p].body
        /\ ret[p].comment.created_at = fetched[p].created_at
        /\ ret[p].comment.updated_at # ret[p].comment.created_at

\* C5: every error an operation returns is a member of the taxonomy (it is,
\* or wraps, one of the six kinds); a collaborator error that is not is
\* replaced by Internal.
C5_ErrorsInTaxonomy ==
    \A p \in Procs :
        pc[p] = "done"
        => /\ ret[p].err = NoErr \/ IsTaxonomyMember(ret[p].err)
           /\ (collabErr[p] # NoErr /\ ~ IsTaxonomyMember(collabErr[p]))
              => ret[p].err = ErrInternal

C5_Witness ==
    \E p \in Procs :
        /\ pc[p] = "done"
        /\ collabErr[p] = ErrRawStorage
        /\ ret[p].err = ErrInternal

\* C6: a collaborator error of kind InvalidID, InvalidArgument, UserNotFound,
\* CommentNotFound or Unauthorized is returned unchanged; any other
\* collaborator error is returned as Internal.
C6_FiveKindsPassThrough ==
    \A p \in Procs :
        (pc[p] = "done" /\ collabErr[p] # NoErr)
        => IF \E k \in Taxonomy \ {ErrInternal} : ErrorsIs(collabErr[p], k)
           THEN ret[p].err = collabErr[p]
           ELSE ret[p].err = ErrInternal

\* C7 (as claimed): when a collaborator call ends with a cancelled context or
\* an expired deadline, the operation returns a cancellation-kind error, not
\* Internal.
C7_CancellationDistinct ==
    \A p \in Procs :
        (pc[p] = "done" /\ collabErr[p] \in ContextErrs)
        => \E c \in ContextErrs : ErrorsIs(ret[p].err, c)

\* C7 (amended): when a collaborator call ends with a cancelled context or an
\* expired deadline, the operation returns Internal and an empty result.
C7_CancellationCollapsed ==
    \A p \in Procs :
        (pc[p] = "done" /\ collabErr[p] \in ContextErrs)
        => /\ ret[p].err = ErrInternal
           /\ ret[p].comment = EmptyComment
           /\ ret[p].comments = <<>>

C7_Witness ==
    \E p \in Procs :
        /\ Done(p, "get")
        /\ collabErr[p] = ErrDeadlineExceeded
        /\ ret[p].err = ErrInternal

\* C8: the view never holds two entries with the same comment id.
C8_OneEntryPerID ==
    \A i \in 1..Len(messages) : \A j \in 1..Len(messages) :
        messages[i].id = messages[j].id => i = j

\* C9: handling edit_comment for an id without an entry in the view raises
\* no error and leaves the view as it was.
C9_EditUnknownIsNoop ==
    [][\A ctx \in Publications :
         (/\ ctx.type = "edit_comment"
          /\ getElementById(messages, "comment-" \o ctx.payload.id) = 0
          /\ handlePublication(ctx))
         => (thrown' = "none" /\ messages' = messages)]_vars

\* C10: handling remove_comment for an id without an entry raises no error
\* and leaves the view as it was; and once remove_comment has been handled,
\* handling the same remove_comment again would not change the view.
C10_RemoveIdempotent ==
    [][\A ctx \in Publications :
         (ctx.type = "remove_comment" /\ handlePublication(ctx))
         => /\ thrown' = "none"
            /\ getElementById(messages, "comment-" \o ctx.payload.comment_id) = 0
               => messages' = messages
            /\ removeCommentView(messages', ctx.payload) = messages']_vars

\* C11: a GetByID or ListByPostID call invokes only its fetch port, leaves
\* storage as it was, and returns what storage holds for its argument (so a
\* repeated call on unchanged storage returns the same).
C11_ReadsLeaveStorage ==
    [][\A p \in Procs :
         (pc[p] = "idle" /\ pc'[p] = "done" /\ dto'[p].op \in {"get", "list"})
         => /\ storage' = storage
            /\ dto'[p].op = "get"
               => /\ calls'[p] = {"get_comment"}
                  /\ ret'[p].err = NoErr
                     => ret'[p].comment = storage[dto'[p].comment_id]
            /\ dto'[p].op = "list"
               => /\ calls'[p] = {"list_post_comments"}
                  /\ ret'[p].err = NoErr
                     => ret'[p].comments = ListPostComments(dto'[p].post_id)]_vars

C11_Witness ==
    \E p \in Procs :
        /\ Done(p, "get") /\ ret[p].err = NoErr
        /\ dto[p].comment_id \in DOMAIN storage
        /\ storage[dto[p].comment_id] = ret[p].comment

\* C12: Update, Delete and GetByID of a commentID that is not in storage end
\* with the fetch: they return CommentNotFound and an empty comment, the fetch
\* is the only port call made, and storage is left as it was.
C12_AbsentIsNotFound ==
    [][\A p \in Procs :
         (/\ pc[p] = "idle" /\ pc'[p] # "idle"
          /\ dto'[p].op \in {"update", "delete", "get"}
          /\ dto'[p].comment_id \notin DOMAIN storage)
         => /\ pc'[p] = "done"
            /\ ErrorsIs(ret'[p].err, ErrCommentNotFound)
            /\ ret'[p].comment = EmptyComment
            /\ calls'[p] = {"get_comment"}
            /\ storage' = storage]_vars

C12_Witness ==
    \E p \in Procs :
        /\ Done(p, "update")
        /\ dto[p].comment_id \in usedIDs \ DOMAIN storage
        /\ ret[p] = [NoRet EXCEPT !.err = ErrCommentNotFound]
        /\ calls[p] = {"get_comment"}

\* C15: a Create whose userID the directory does not resolve returns
\* UserNotFound and an empty comment; the create port is not invoked, no id
\* is taken and storage is left as it was.
C15_UnknownUserNoCreate ==
    [][\A p \in Procs :
         (/\ pc[p] = "idle" /\ pc'[p] # "idle"
          /\ dto'[p].op = "create"
          /\ ~ Resolves(dto'[p].user_id))
         => /\ pc'[p] = "done"
            /\ ret'[p] = [NoRet EXCEPT !.err = ErrUserNotFound]
            /\ calls'[p] = {"get_user"}
            /\ storage' = storage
            /\ usedIDs' = usedIDs]_vars

C15_Witness ==
    \E p \in Procs :
        /\ Done(p, "create")
        /\ ~ Resolves(dto[p].user_id)
        /\ ret[p].err = ErrUserNotFound
        /\ "create" \notin calls[p]

\* C13: with one call at a time, a Delete by the author of a stored comment
\* returns no error after exactly one delete port invocation for that id and
\* the comment is gone; a GetByID of that id afterwards returns
\* CommentNotFound.
C13_AuthorDeletes ==
    \A p \in Procs :
        /\ (/\ Done(p, "delete")
            /\ fetched[p] # EmptyComment
            /\ fetched[p].user.id = dto[p].user_id)
           => /\ ret[p] = NoRet
              /\ calls[p] = {"get_comment", "delete"}
              /\ deleteCalls[dto[p].comment_id] = 1
              /\ dto[p].comment_id \notin DOMAIN storage
        /\ (Done(p, "get") /\ dto[p].comment_id \in deleted)
           => /\ ErrorsIs(ret[p].err, ErrCommentNotFound)
              /\ ret[p].comment = EmptyComment

C13_Witness ==
    \E p \in Procs :
        /\ Done(p, "get")
        /\ dto[p].comment_id \in deleted
        /\ deleteCalls[dto[p].comment_id] = 1
        /\ ret[p].err = ErrCommentNotFound

\* C14 (as stated): across any interleaving of concurrent Delete calls by its
\* author, the delete port is invoked at most once for a given comment id.
C14_DeletePortAtMostOnce ==
    \A id \in CommentIDs : deleteCalls[id] <= 1

\* C14 (amended): every delete port invocation is made by one Delete call
\* leaving its ownership check, once, for the id and on behalf of the author
\* of the comment it fetched; an invocation that finds the comment no longer
\* stored returns CommentNotFound and leaves storage alone.
C14_OncePerCall ==
    [][ \A id \in CommentIDs :
          deleteCalls'[id] # deleteCalls[id] =>
            /\ deleteCalls'[id] = deleteCalls[id] + 1
            /\ \E p \in Procs :
                 /\ pc[p] = "delete_check" /\ pc'[p] = "done"
                 /\ dto[p].comment_id = id
                 /\ fetched[p] # EmptyComment
                 /\ fetched[p].id = id
                 /\ fetched[p].user.id = dto[p].user_id
                 /\ id \notin DOMAIN storage =>
                      /\ ErrorsIs(ret'[p].err, ErrCommentNotFound)
                      /\ storage' = storage
                 /\ id \in DOMAIN storage =>
                      /\ ret'[p].err = NoErr
                      /\ id \notin DOMAIN storage' ]_vars

C14_Witness ==
    \E p \in Procs :
        /\ Done(p, "delete")
        /\ "delete" \in calls[p]
        /\ deleteCalls[dto[p].comment_id] = 2
        /\ ret[p].err = ErrCommentNotFound

\* C19: the service makes no concurrency check on Update: every update port
\* write of an authorized Update returns success with the written comment,
\* also when the stored comment has changed since the call fetched it (another
\* Update wrote in between); the body stored afterwards is that of the write
\* applied last, and the caller whose write was replaced was told nothing.
C19_LastWriteWins ==
    [][ \A p \in Procs :
          (pc[p] = "update_write" /\ pc'[p] = "done") =>
            /\ ret'[p] = [comment |-> comment[p], comments |-> <<>>, err |-> NoErr]
            /\ comment[p].body = dto[p].body
            /\ storage'[comment[p].id] = comment[p]
            /\ \A q \in Procs \ {p} : ret'[q] = ret[q] ]_vars

C19_Witness ==
    \E p \in Procs :
        /\ Done(p, "update")
        /\ overwrote[p]
        /\ ret[p].err = NoErr
        /\ storage[dto[p].comment_id].body = dto[p].body
        /\ fetched[p].body # dto[p].body

\* C20 (as stated): once a Delete of comment c has returned success, no Update
\* of c returns success afterwards and c is never present in storage again.
C20_DeletedStaysDeleted ==
    \A c \in deleted :
        /\ c \notin DOMAIN storage
        /\ \A p \in Procs :
             (Done(p, "update") /\ dto[p].comment_id = c) => ret[p].err # NoErr

\* C20 (amended): after a Delete of c has returned success, an Update that
\* fetches c while it is absent returns CommentNotFound without invoking the
\* update port, and c comes back into storage only through the update port
\* write of an Update call that fetched c before the Delete, which stores the
\* comment that call built and returns success.
C20_OnlyStaleUpdateRestores ==
    [][ \A c \in deleted :
          /\ \A p \in Procs :
               (/\ pc[p] = "idle" /\ dto'[p].op = "update" /\ dto'[p].comment_id = c
                /\ c \notin DOMAIN storage)
               => /\ pc'[p] = "done"
                  /\ ErrorsIs(ret'[p].err, ErrCommentNotFound)
                  /\ "update" \notin calls'[p]
                  /\ storage' = storage
          /\ (c \notin DOMAIN storage /\ c \in DOMAIN storage')
             => \E p \in Procs :
                  /\ pc[p] = "update_write" /\ pc'[p] = "done"
                  /\ fetched[p] # EmptyComment
                  /\ fetched[p].id = c
                  /\ storage'[c] = comment[p]
                  /\ ret'[p].err = NoErr ]_vars

C20_Witness ==
    \E p \in Procs :
        /\ Done(p, "update")
        /\ dto[p].comment_id \in deleted
        /\ dto[p].comment_id \in DOMAIN storage
        /\ ret[p].err = NoErr

\* C18: a publication whose type is none of new_comment, edit_comment and
\* remove_comment is dropped: its handler raises nothing and leaves the view
\* as it was, and the receiver goes on handling publications afterwards.
C18_UnknownTypeDropped ==
    /\ [][ eventType' \notin {"", "new_comment", "edit_comment", "remove_comment"}
             => (messages' = messages /\ thrown' = "none") ]_vars
    /\ [](eventType \notin {"", "new_comment", "edit_comment", "remove_comment"}
             => \A ctx \in Publications :
                  (ctx.type = "remove_comment" \/ ctx.type = "edit_comment")
                  => ENABLED handlePublication(ctx))

C18_Witness ==
    /\ eventType = "presence"
    /\ messages # <<>>
    /\ thrown = "none"

\* C16: an inbound event starts exactly one service call, a create, an update
\* or a delete; when the call has finished the bridge appends exactly one
\* outbound event of the matching type to the channel if the call returned no
\* error, after the mutating port was invoked, and nothing if it returned an
\* error; the channel grows in no other step.
C16_BroadcastIffSuccess ==
    [][ /\ \A p \in Procs :
             (pc[p] = "idle" /\ pc'[p] # "idle")
             => /\ started' = started + 1
                /\ dto'[p].op \in {"create", "update", "delete"}
                /\ \A q \in Procs \ {p} : pc'[q] = pc[q]
                /\ channel' = channel
        /\ \A p \in Procs :
             (pc[p] = "done" /\ pc'[p] = "idle")
             => IF ret[p].err = NoErr
                THEN /\ Len(channel') = Len(channel) + 1
                     /\ channel'[Len(channel')].type =
                          (CASE dto[p].op = "create" -> "new_comment"
                             [] dto[p].op = "update" -> "edit_comment"
                             [] OTHER -> "remove_comment")
                     /\ dto[p].op \in calls[p]
                ELSE /\ \E t \in {ErrUnauthorized, ErrCommentNotFound,
                                    ErrUserNotFound, ErrInternal} :
                          ErrorsIs(ret[p].err, t)
                     /\ channel' = channel
        /\ Len(channel') > Len(channel)
             => \E p \in Procs : pc[p] = "done" /\ pc'[p] = "idle" ]_vars

C16_Witness ==
    /\ Len(channel) = 1
    /\ channel[1].type = "edit_comment"
    /\ channel[1].payload.id \in DOMAIN storage
    /\ storage[channel[1].payload.id].body = channel[1].payload.body

\* the entries the client shows are the stored comments: one entry per
\* stored id, no other entry, and each entry shows the stored body
ViewMatchesStorage ==
    /\ Len(messages) = Cardinality(DOMAIN storage)
    /\ \A id \in DOMAIN storage :
         \E i \in 1..Len(messages) :
            /\ messages[i].id = "comment-" \o id
            /\ messages[i].body = storage[id].body

\* C17: when every outbound event has been delivered once, in the order the
\* calls succeeded, and no finished call is waiting for its broadcast, the
\* client shows exactly the stored comments with their stored bodies.
C17_ViewEqualsStorage ==
    (channel = <<>> /\ \A p \in Procs : pc[p] # "done") => ViewMatchesStorage

\* C21: when the create port succeeds, Create returns the comment the port
\* returned, which is the persisted one, also where it differs from the
\* comment Create constructed; when the create port fails, Create returns an
\* empty comment with the error handleErr maps the port's error to.
C21_ReturnsPersisted ==
    [][ \A p \in Procs :
          (pc[p] = "create_store" /\ pc'[p] = "done") =>
            IF collabErr'[p] = NoErr
            THEN /\ ret'[p].err = NoErr
                 /\ comment[p].id \in DOMAIN storage'
                 /\ ret'[p].comment = storage'[comment[p].id]
            ELSE /\ ret'[p].comment = EmptyComment
                 /\ ret'[p].err = handleErr(collabErr'[p])
                 /\ ret'[p].err # NoErr ]_vars

C21_Witness ==
    \E p \in Procs :
        /\ Done(p, "create")
        /\ ret[p].err = NoErr
        /\ ret[p].comment # comment[p]
        /\ ret[p].comment = storage[comment[p].id]

\* C22: pressing the Delete or Update button of the entry of a comment
\* publishes an event whose payload comment_id is that comment's id, for every
\* id, also one that contains '-'.
C22_IdRoundTrip ==
    clicked # <<>> => outbox.payload.comment_id = clicked

====
